---- MODULE Spec2Model ----
(***************************************************************************)
(* VogueCurate: the collection store, the persistence effects and the      *)
(* three generation stages of the App component, with the closures that    *)
(* React gives each asynchronous handler (the state of the render in which *)
(* the handler was invoked).                                               *)
(*                                                                         *)
(* An optional value (T | null | undefined) is a sequence of length 0 or   *)
(* 1: <<>> is "absent", <<x>> is "present with value x".                    *)
(***************************************************************************)
EXTENDS Integers, Sequences, FiniteSets, TLC

VARIABLES
    phase,              \* "constructed" | "loading" | "ready" | "crashed": the mount of the component
    view,               \* useState<AppView>
    collections,        \* useState<Collection[]>
    activeCollection,   \* useState<Collection | null>
    isGenerating,       \* busy flag of the strategy stage
    isImgGenerating,    \* busy flag of the visual concept stage
    isPromoGenerating,  \* busy flag of the promotional stage
    error,              \* useState<string | null>, the dismissible notice
    formData,           \* the "New Archive" form
    pendingImages,      \* useState<CollectionImage[]>
    storage,            \* the localStorage slot 'voguecurate_collections'
    loaded,             \* the list handed to setCollections by the load effect, not yet rendered
    calls,              \* external generation calls in flight, each with its closure
    uploads,            \* handleImageUpload invocations in flight, each with its closure
    nextId,             \* the next identifier Math.random() produces (ids are fresh)
    budget,             \* how many more external calls and uploads the run may start
    strategyHistory,    \* history: the ids of the collections a strategy result was applied to
                        \* in this run, and of those loaded from the slot with a strategy
    last                \* history: the operation that produced this state

vars == <<phase, view, collections, activeCollection, isGenerating, isImgGenerating,
          isPromoGenerating, error, formData, pendingImages, storage, loaded, calls,
          uploads, nextId, budget, strategyHistory, last>>

----------------------------------------------------------------------------
(* Bounds of the model *)

\* the external calls a run starts
MaxCalls == 2
\* the ids Math.random() hands out in a run
MaxId == 1

\* the files of a batch chosen in a file input
MaxFiles == 3
\* the symbols of a response text given to parseGeminiJson
MaxText == 5

\* what a run may start: external calls, uploads, and the ids it may draw; a
\* run is long in calls, or it has an upload and is long in ids
Budgets ==
    { [calls |-> MaxCalls, uploads |-> 0, ids |-> 1],
      [calls |-> 1, uploads |-> 1, ids |-> MaxId] }
\* what fits the quota of the origin, in collections and encoded images
StorageQuota == MaxId + 2

----------------------------------------------------------------------------
(* Values *)

None == <<>>
Some(x) == <<x>>
IsSome(o) == Len(o) = 1
Val(o) == o[1]

NoError == "null"
BusyMsg == "The digital curator is currently busy. Please try again in a moment."
FullMsg == "Your fashion archive is full. Please delete an older collection."

EmptyForm == [name |-> "", season |-> "", description |-> ""]
FormInputs ==
    { EmptyForm,
      [name |-> " ", season |-> "", description |-> ""],
      [name |-> "Satori", season |-> "FW25", description |-> ""] }

\* !formData.name : the empty string is the only falsy string
Falsy(s) == s = ""
\* a name the specification calls blank: empty or whitespace only
Blank(s) == s \in {"", " "}

Stages == {"strategy", "visual", "promo"}

----------------------------------------------------------------------------
(* The image normaliser (processImage, img.onload).  width and height are  *)
(* JavaScript Numbers: the quotient MAX_IMAGE_DIMENSION / width and its     *)
(* product with the other edge are each rounded to the 53 significant bits  *)
(* of a binary64, and the canvas takes the integer part of what it is       *)
(* assigned.  A Number is a record of three digits hi, mid, lo in base      *)
(* Limb and an exponent: (hi * Limb^2 + mid * Limb + lo) * 2^exp.  A        *)
(* Number of 53 bits has 17 of them in hi and 18 in each of mid and lo.     *)

MAX_IMAGE_DIMENSION == 1024
SignificandBits == 53

RECURSIVE Pow2(_)
Pow2(j) == IF j = 0 THEN 1 ELSE 2 * Pow2(j - 1)

LimbBits == (SignificandBits + 1) \div 3
Limb == Pow2(LimbBits)
HiBits == SignificandBits - 2 * LimbBits

RECURSIVE BitLength(_)
BitLength(n) == IF n = 0 THEN 0 ELSE 1 + BitLength(n \div 2)

\* the digits of a Number whose mid and lo have outgrown the base
Carry(hi, mid, lo, exp) ==
    [hi |-> hi + (mid + lo \div Limb) \div Limb, mid |-> (mid + lo \div Limb) % Limb,
     lo |-> lo % Limb, exp |-> exp]

\* the least j with n * 2^j >= d
RECURSIVE Shift(_, _)
Shift(n, d) == IF n >= d THEN 0 ELSE 1 + Shift(2 * n, d)

\* the Number n / d of two integers 0 < n < d < 2^13: long division to 53 bits,
\* rounded to nearest, ties to even, by what is left of the dividend
Divide(n, d) ==
    LET j == Shift(n, d)
        a == (n * Pow2(j) - d) * Pow2(HiBits - 1)
        b == (a % d) * Limb
        c == (b % d) * Limb
        lo == c \div d
        up == 2 * (c % d) > d \/ (2 * (c % d) = d /\ lo % 2 = 1)
    IN Carry(Pow2(HiBits - 1) + a \div d, b \div d, lo + (IF up THEN 1 ELSE 0),
             0 - j - (SignificandBits - 1))

\* a Number whose hi has outgrown HiBits bits, rounded to nearest, ties to
\* even, to SignificandBits bits: the bits dropped are the last ones of lo
RoundToNearest(num) ==
    LET k == BitLength(num.hi) - HiBits
        kept == num.lo \div Pow2(k)
        dropped == num.lo % Pow2(k)
        up == 2 * dropped > Pow2(k) \/ (2 * dropped = Pow2(k) /\ kept % 2 = 1)
    IN IF k <= 0 THEN num
       ELSE Carry(num.hi, num.mid, (kept + (IF up THEN 1 ELSE 0)) * Pow2(k), num.exp)

\* the Number h * factor of an integer 0 < h < 2^13 and a Number factor
Times(h, factor) ==
    LET p0 == h * factor.lo
        p1 == h * factor.mid + p0 \div Limb
        p2 == h * factor.hi + p1 \div Limb
    IN RoundToNearest([hi |-> p2, mid |-> p1 % Limb, lo |-> p0 % Limb, exp |-> factor.exp])

\* the conversion of a Number to the unsigned long of canvas.width and
\* canvas.height: the integer part, which for the Numbers here (below 2^13,
\* of exponent at most -2 * LimbBits) lies in hi
ToUnsignedLong(value) ==
    LET fraction == 0 - value.exp - 2 * LimbBits
    IN IF fraction >= BitLength(value.hi) THEN 0 ELSE value.hi \div Pow2(fraction)

\* faulty variant: the branches do not look at MAX_IMAGE_DIMENSION
CanvasSizeUnbounded(width, height) == [width |-> width, height |-> height]

\* the size of the canvas for an image of the given size
CanvasSize(width, height) ==
    IF width > height
    THEN IF width > MAX_IMAGE_DIMENSION
         THEN [width |-> MAX_IMAGE_DIMENSION,
               height |-> ToUnsignedLong(Times(height, Divide(MAX_IMAGE_DIMENSION, width)))]
         ELSE [width |-> width, height |-> height]
    ELSE IF height > MAX_IMAGE_DIMENSION
         THEN [width |-> ToUnsignedLong(Times(width, Divide(MAX_IMAGE_DIMENSION, height))),
               height |-> MAX_IMAGE_DIMENSION]
         ELSE [width |-> width, height |-> height]

----------------------------------------------------------------------------
(* The generation service (geminiService): what each exported function     *)
(* makes of the responses of the external capability.  A response text is  *)
(* a sequence of symbols: the backquote, the word json, the double quote,  *)
(* white space, and a text without backquote or double quote (that of a    *)
(* whole JSON object, or junk) as one symbol; a response of the image      *)
(* model is its first candidate's list of content parts.                   *)

Strategy(t) ==
    [themeName |-> t, tagline |-> <<"tagline", t>>, conceptDescription |-> <<"concept", t>>,
     lightingStrategy |-> <<"light", t>>, musicAtmosphere |-> <<"music", t>>,
     spatialArrangement |-> <<"space", t>>, materialsUsed |-> <<"silk", t>>]

Undefined == "undefined"

Tick == "<backquote>"
Json == "json"
Quote == "<quote>"
\* the three backquotes alone, and followed by json
Fence == <<Tick, Tick, Tick>>
FenceOpen == Fence \o <<Json>>
Newline == "\n"
Space == " "
Whitespace == {Newline, Space}

\* the texts of JSON objects, and what JSON.parse makes of them
StrategyJson == {"{X}", "{Y}"}
CopyJson == {"{C1}", "{}"}
JsonTexts == StrategyJson \cup CopyJson
JsonValue(tok) ==
    CASE tok = "{X}" -> Strategy("X")
      [] tok = "{Y}" -> Strategy("Y")
      [] tok = "{C1}" -> [instagramCaption |-> "caption 1", pressSnippet |-> "press 1"]
      [] OTHER -> [instagramCaption |-> Undefined, pressSnippet |-> Undefined]

StartsWith(text, prefix) ==
    Len(text) >= Len(prefix) /\ SubSeq(text, 1, Len(prefix)) = prefix
Drop(text, k) == SubSeq(text, k + 1, Len(text))

\* faulty variant: the regular expression has no g flag, the first match only
\* is replaced
RECURSIVE StripFencesOnce(_)
StripFencesOnce(text) ==
    IF text = <<>> THEN <<>>
    ELSE IF StartsWith(text, FenceOpen \o <<Newline>>) THEN Drop(text, Len(FenceOpen) + 1)
    ELSE IF StartsWith(text, FenceOpen) THEN Drop(text, Len(FenceOpen))
    ELSE IF StartsWith(text, Fence) THEN Drop(text, Len(Fence))
    ELSE <<Head(text)>> \o StripFencesOnce(Tail(text))

\* text.replace(/<fence>json\n?|<fence>/g, ""): every match, leftmost first,
\* the first alternative before the second
RECURSIVE StripFences(_)
StripFences(text) ==
    IF text = <<>> THEN <<>>
    ELSE IF StartsWith(text, FenceOpen \o <<Newline>>)
         THEN StripFences(Drop(text, Len(FenceOpen) + 1))
    ELSE IF StartsWith(text, FenceOpen) THEN StripFences(Drop(text, Len(FenceOpen)))
    ELSE IF StartsWith(text, Fence) THEN StripFences(Drop(text, Len(Fence)))
    ELSE <<Head(text)>> \o StripFences(Tail(text))

\* String.prototype.trim
RECURSIVE TrimLeft(_)
TrimLeft(text) ==
    IF text # <<>> /\ Head(text) \in Whitespace THEN TrimLeft(Tail(text)) ELSE text
RECURSIVE TrimRight(_)
TrimRight(text) ==
    IF text # <<>> /\ text[Len(text)] \in Whitespace
    THEN TrimRight(SubSeq(text, 1, Len(text) - 1)) ELSE text
Trim(text) == TrimRight(TrimLeft(text))

\* JSON.parse: one JSON text, an object or a string between double quotes
\* (with no double quote and no line break in it), with insignificant
\* whitespace around it; the value of a string is its characters
JsonParse(text) ==
    LET t == Trim(text) IN
    IF Len(t) = 1 /\ t[1] \in JsonTexts
    THEN [ok |-> TRUE, value |-> Some(JsonValue(t[1]))]
    ELSE IF /\ Len(t) >= 2
            /\ t[1] = Quote
            /\ t[Len(t)] = Quote
            /\ \A k \in 2..(Len(t) - 1) : t[k] \notin {Quote, Newline}
         THEN [ok |-> TRUE, value |-> Some([string |-> SubSeq(t, 2, Len(t) - 1)])]
    ELSE [ok |-> FALSE, value |-> None]

\* the outcome of an async function of the service: a rejection with the
\* Error thrown, or a fulfilment with the value returned
Throw(err) == [ok |-> FALSE, value |-> None, err |-> err]
Return(v) == [ok |-> TRUE, value |-> Some(v), err |-> ""]

\* the messages of the Errors the service throws
FormatMsg ==
    "The digital curator returned an unexpected format. Please refresh and try again."
UnavailableMsg == "The digital curator is currently unavailable."
RenderMsg == "Failed to generate visual render."

\* the Errors ai.models.generateContent rejects with: the key is refused, or
\* the service cannot take the request
CredentialRejected == "API key not valid. Please pass a valid API key."
Overloaded == "The model is overloaded. Please try again later."
ApiErrors == {CredentialRejected, Overloaded}

\* the catch of parseGeminiJson replaces the SyntaxError of JSON.parse
parseGeminiJson(text) ==
    LET parsed == JsonParse(StripFences(text)) IN
    IF parsed.ok THEN Return(Val(parsed.value)) ELSE Throw(FormatMsg)

\* generateExhibitionStrategy, from the response of its one call
generateExhibitionStrategy(resp) ==
    IF resp.rejected THEN Throw(resp.error)
    ELSE IF resp.text = <<>> THEN Throw(UnavailableMsg)
    ELSE parseGeminiJson(resp.text)

\* faulty variant: the loop does not stop at the first part with inlineData
RECURSIVE LastInlineData(_)
LastInlineData(parts) ==
    IF parts = <<>> THEN None
    ELSE IF IsSome(parts[Len(parts)].inlineData) THEN parts[Len(parts)].inlineData
    ELSE LastInlineData(SubSeq(parts, 1, Len(parts) - 1))

\* the payload of the first part with inlineData, if any
RECURSIVE FirstInlineData(_)
FirstInlineData(parts) ==
    IF parts = <<>> THEN None
    ELSE IF IsSome(Head(parts).inlineData) THEN Head(parts).inlineData
    ELSE FirstInlineData(Tail(parts))

PngUrl(data) == <<"data:image/png;base64,", data>>

\* generateVisualConcept, from the response of its one call
generateVisualConcept(resp) ==
    IF resp.rejected THEN Throw(resp.error)
    ELSE LET d == FirstInlineData(resp.parts) IN
         IF IsSome(d) THEN Return(PngUrl(Val(d)))
         ELSE Throw(RenderMsg)

\* generatePromotionalSuite, from the collection's strategy and the responses
\* of its two calls (the copy call, then the poster call)
generatePromotionalSuite(strategy, copyResp, posterResp) ==
    IF copyResp.rejected THEN Throw(copyResp.error)
    ELSE LET copy == parseGeminiJson(IF copyResp.text = <<>> THEN <<"{}">> ELSE copyResp.text) IN
         IF ~copy.ok THEN copy
         ELSE IF posterResp.rejected THEN Throw(posterResp.error)
         ELSE LET d == FirstInlineData(posterResp.parts)
                  posterUrl == IF IsSome(d) THEN PngUrl(Val(d)) ELSE <<>>
              IN Return([tagline |-> strategy.tagline,
                         instagramCaption |-> Val(copy.value).instagramCaption,
                         pressSnippet |-> Val(copy.value).pressSnippet,
                         posterUrl |-> posterUrl])

(* The responses the external capability is taken to give *)
TextResp(t) == [rejected |-> FALSE, text |-> t]
RejectedText == [rejected |-> TRUE, text |-> <<>>, error |-> Overloaded]
UnauthorizedText == [rejected |-> TRUE, text |-> <<>>, error |-> CredentialRejected]
TextPart == [inlineData |-> None]
ImagePart(d) == [inlineData |-> Some(d)]
PartsResp(ps) == [rejected |-> FALSE, parts |-> ps]
RejectedParts == [rejected |-> TRUE, parts |-> <<>>, error |-> Overloaded]
UnauthorizedParts == [rejected |-> TRUE, parts |-> <<>>, error |-> CredentialRejected]

StrategyResponses ==
    { RejectedText, UnauthorizedText, TextResp(<<>>), TextResp(<<"junk">>),
      TextResp(<<"{X}">>),
      TextResp(FenceOpen \o <<Newline, "{Y}", Newline>> \o Fence) }
ImageResponses ==
    { RejectedParts, UnauthorizedParts, PartsResp(<<>>), PartsResp(<<TextPart>>),
      PartsResp(<<TextPart, ImagePart("A"), ImagePart("B")>>),
      PartsResp(<<ImagePart("B")>>) }
CopyResponses ==
    { RejectedText, UnauthorizedText, TextResp(<<>>), TextResp(<<"junk">>),
      TextResp(<<"{C1}">>) }
PosterResponses ==
    { RejectedParts, UnauthorizedParts, PartsResp(<<TextPart>>),
      PartsResp(<<ImagePart("P")>>) }

----------------------------------------------------------------------------
(* The component state (App) *)

Dashboard == "DASHBOARD"
Editor == "EDITOR"

\* a Collection the user creates from the form and the pending images
NewCollection(id, form, images) ==
    [id |-> id, name |-> form.name, season |-> form.season, description |-> form.description,
     images |-> images, strategy |-> None, visualConceptUrl |-> None, promoAssets |-> None]

\* canvas.toDataURL('image/jpeg', JPEG_QUALITY) of the file at place k of a
\* batch, drawn on a canvas of the given size
ToDataURL(k, size) == <<"jpeg", k, size.width, size.height>>

\* faulty variant: the id is not fresh, it is the one an earlier image has
NewImageOldId(id, base64) == [id |-> 0 - 1, url |-> base64, base64 |-> base64]

\* a CollectionImage made from a data URL
NewImage(id, base64) == [id |-> id, url |-> base64, base64 |-> base64]

\* what the slot holds: nothing, a text JSON.parse rejects, the JSON text of a
\* value that is not an array, or JSON.stringify of a list.  The text of an
\* object is a record of the properties it has: JSON.stringify leaves out a
\* property that is absent or whose value is undefined.
Absent == [kind |-> "absent", list |-> <<>>]
Corrupt == [kind |-> "corrupt", list |-> <<>>]
NotAList == [kind |-> "object", list |-> <<>>]

OptionalKeys == {"strategy", "visualConceptUrl", "promoAssets"}

\* the text of a PromotionalAssets object
StringifyPromo(promo) ==
    [k \in {key \in DOMAIN promo : promo[key] # Undefined} |-> promo[k]]

\* faulty variant: the nested objects are not written
StringifyCollectionFlat(c) ==
    [k \in {key \in DOMAIN c : key \notin OptionalKeys} |-> c[k]]

\* the text of a Collection
StringifyCollection(c) ==
    [k \in {key \in DOMAIN c : key \in OptionalKeys => IsSome(c[key])} |->
        IF k = "promoAssets" THEN StringifyPromo(Val(c[k]))
        ELSE IF k \in OptionalKeys THEN Val(c[k])
        ELSE c[k]]

Stringify(list) ==
    [kind |-> "json", list |-> [i \in 1..Len(list) |-> StringifyCollection(list[i])]]

\* the object JSON.parse makes of the text of a PromotionalAssets: a property
\* the text does not have reads as undefined
ParsePromo(text) ==
    [k \in {"tagline", "instagramCaption", "pressSnippet", "posterUrl"} |->
        IF k \in DOMAIN text THEN text[k] ELSE Undefined]

\* the object JSON.parse makes of the text of a Collection
ParseCollection(text) ==
    [k \in (DOMAIN text) \cup OptionalKeys |->
        IF k \notin OptionalKeys THEN text[k]
        ELSE IF k \notin DOMAIN text THEN None
        ELSE IF k = "promoAssets" THEN Some(ParsePromo(text[k]))
        ELSE Some(text[k])]

\* JSON.parse(saved): throws on a text that is not JSON, else the value
Parse(saved) ==
    [ok |-> saved.kind \in {"json", "object"}, isArray |-> saved.kind = "json",
     list |-> [i \in 1..Len(saved.list) |-> ParseCollection(saved.list[i])]]

\* the slot left by an earlier session
PersistedCollection ==
    [NewCollection(0, [name |-> "Archive", season |-> "SS24", description |-> ""], <<>>)
        EXCEPT !.strategy = Some(Strategy("X"))]
InitialSlots == {Absent, Corrupt, NotAList, Stringify(<<PersistedCollection>>)}

\* the size of JSON.stringify(list), counted in collections and encoded images
RECURSIVE StoredSize(_)
StoredSize(list) ==
    IF list = <<>> THEN 0
    ELSE LET c == Head(list) IN
         1 + Len(c.images) + Len(c.visualConceptUrl)
           + (IF IsSome(c.promoAssets) /\ Val(c.promoAssets).posterUrl # <<>> THEN 1 ELSE 0)
           + StoredSize(Tail(list))

\* localStorage.setItem stores the text, or throws QuotaExceededError when the
\* text does not fit the quota of the origin
SetItem(list) == IF StoredSize(list) <= StorageQuota THEN "ok" ELSE "quota"

\* the name of the DOMException the engine throws when the quota is exceeded
QuotaFaults == {"QuotaExceededError", "NS_ERROR_DOM_QUOTA_REACHED"}

\* a File of a batch: an image that decodes, one for whose canvas no 2d context
\* is given, or a file that is no image; width and height are those of the
\* decoded image
FileKinds == {"ok", "noctx", "undecodable"}
File(kind, width, height) == [kind |-> kind, width |-> width, height |-> height]
Batches == {<<File(k, 1, 1)>> : k \in FileKinds}

Event(op, stage, cid, ok, replaced) ==
    [op |-> op, stage |-> stage, cid |-> cid, ok |-> ok, replaced |-> replaced,
     act |-> IF IsSome(activeCollection) THEN Some(Val(activeCollection).id) ELSE None]

\* what a settled processImage leaves in the history: the file and the canvas
ImageEvent(file, size) ==
    [op |-> "processImage", stage |-> "", cid |-> None, ok |-> file.kind = "ok",
     replaced |-> FALSE,
     act |-> IF IsSome(activeCollection) THEN Some(Val(activeCollection).id) ELSE None,
     file |-> file, size |-> size]

\* what removeImageFromCollection leaves in the history: its argument and
\* how many images it took out
RemoveEvent(imageId, cid, removed) ==
    [op |-> "removeImageFromCollection", stage |-> "", cid |-> cid, ok |-> IsSome(cid),
     replaced |-> FALSE,
     act |-> IF IsSome(activeCollection) THEN Some(Val(activeCollection).id) ELSE None,
     imageId |-> imageId, removed |-> removed]

\* what a committed upload leaves in the history: its closure and its images
UploadEvent(up, cid) ==
    [op |-> "uploadCommit", stage |-> "", cid |-> cid, ok |-> TRUE, replaced |-> FALSE,
     act |-> IF IsSome(activeCollection) THEN Some(Val(activeCollection).id) ELSE None,
     isForActiveCollection |-> up.isForActiveCollection, closed |-> up.activeCollection,
     files |-> up.files, added |-> up.processedImages]

\* faulty variants of the mirroring: the list is left as it is; every entry is replaced
MapReplaceForgotten(list, updated) == list
MapReplaceEvery(list, updated) == [i \in 1..Len(list) |-> updated]

\* faulty variant: an updated collection that has no entry is put into the list
MapReplaceOrAppend(list, updated) ==
    IF \E i \in 1..Len(list) : list[i].id = updated.id
    THEN [i \in 1..Len(list) |-> IF list[i].id = updated.id THEN updated ELSE list[i]]
    ELSE Append(list, updated)

\* prev.map(c => c.id === updated.id ? updated : c)
MapReplace(list, updated) ==
    [i \in 1..Len(list) |-> IF list[i].id = updated.id THEN updated ELSE list[i]]

\* faulty variant: the filter stops at the first element of the id
RECURSIVE FilterOutIdAndRest(_, _)
FilterOutIdAndRest(list, id) ==
    IF list = <<>> THEN <<>>
    ELSE IF Head(list).id = id THEN <<>>
    ELSE <<Head(list)>> \o FilterOutIdAndRest(Tail(list), id)

\* prev.filter(c => c.id !== id), and images.filter(img => img.id !== imageId)
RECURSIVE FilterOutId(_, _)
FilterOutId(list, id) ==
    IF list = <<>> THEN <<>>
    ELSE IF Head(list).id = id THEN FilterOutId(Tail(list), id)
    ELSE <<Head(list)>> \o FilterOutId(Tail(list), id)

\* faulty variant: the new collection is put behind the others
PrependLast(newColl, list) == list \o <<newColl>>

\* [newColl, ...prev]
Prepend(newColl, list) == <<newColl>> \o list

\* faulty variant: the fields the stages fill are not copied
WithImagesOnly(c, images) ==
    [c EXCEPT !.images = images, !.strategy = None, !.visualConceptUrl = None,
              !.promoAssets = None]

\* { ...activeCollection, images: updatedImages }
WithImages(c, images) == [c EXCEPT !.images = images]

RemoveAt(seq, i) == SubSeq(seq, 1, i - 1) \o SubSeq(seq, i + 1, Len(seq))

\* the save effect, run after the render that follows setCollections(list):
\* the notice the handler left is replaced when the write is refused
SaveEffect(list, notice) ==
    /\ storage' = IF SetItem(list) = "ok" THEN Stringify(list) ELSE storage
    /\ \E name \in QuotaFaults :
           error' = IF SetItem(list) = "quota" /\ name = "QuotaExceededError"
                    THEN FullMsg ELSE notice

\* faulty variant: the list is set and no save effect follows
SetCollectionsUnsaved(list, notice) ==
    /\ collections' = list
    /\ storage' = storage
    /\ error' = notice

\* setCollections(list) and the effect that follows its render
SetCollections(list, notice) ==
    /\ collections' = list
    /\ SaveEffect(list, notice)

InitWith(budgets, slots) ==
    /\ phase = "constructed"
    /\ view = Dashboard
    /\ collections = <<>>
    /\ activeCollection = None
    /\ isGenerating = FALSE
    /\ isImgGenerating = FALSE
    /\ isPromoGenerating = FALSE
    /\ error = NoError
    /\ formData = EmptyForm
    /\ pendingImages = <<>>
    /\ storage \in slots
    /\ loaded = None
    /\ calls = <<>>
    /\ uploads = <<>>
    /\ nextId = 1
    /\ budget \in budgets
    /\ strategyHistory = [applied |-> {}, loaded |-> {}]
    /\ last = [op |-> "construct", stage |-> "", cid |-> None, ok |-> TRUE,
               replaced |-> FALSE, act |-> None]

Init == InitWith(Budgets, InitialSlots)

\* the effects of the first render: the load effect reads the slot and hands
\* the parsed value to setCollections; the save effect writes the list of that
\* render
Mount ==
    /\ phase = "constructed"
    /\ loaded' = IF storage.kind # "absent" /\ Parse(storage).ok
                 THEN Some(Parse(storage)) ELSE None
    /\ phase' = IF storage.kind # "absent" /\ Parse(storage).ok THEN "loading" ELSE "ready"
    /\ SaveEffect(collections, error)
    /\ last' = Event("mount", "", None, TRUE, FALSE)
    /\ UNCHANGED <<view, collections, activeCollection, isGenerating, isImgGenerating,
                   isPromoGenerating, formData, pendingImages, calls, uploads, nextId, budget,
                   strategyHistory>>

\* the render of the loaded value, and the save effect after it; the render
\* calls collections.map and collections.length, which a value that is not an
\* array does not have: the render throws and the component is unmounted
RenderLoaded ==
    /\ phase = "loading"
    /\ loaded' = None
    /\ IF Val(loaded).isArray
       THEN /\ phase' = "ready"
            /\ SetCollections(Val(loaded).list, error)
            /\ strategyHistory' =
                   [strategyHistory EXCEPT !.loaded =
                       {Val(loaded).list[i].id : i \in {j \in 1..Len(Val(loaded).list) :
                                                       IsSome(Val(loaded).list[j].strategy)}}]
            /\ last' = Event("load", "", None, TRUE, FALSE)
       ELSE /\ phase' = "crashed"
            /\ last' = Event("load", "", None, FALSE, FALSE)
            /\ UNCHANGED <<collections, storage, error, strategyHistory>>
    /\ UNCHANGED <<view, activeCollection, isGenerating, isImgGenerating, isPromoGenerating,
                   formData, pendingImages, calls, uploads, nextId, budget>>

----------------------------------------------------------------------------
(* The collection store: the handlers of the component *)

Ready == phase = "ready"

\* the form is typed into while the run can still create a collection
setFormData(f) ==
    /\ Ready
    /\ budget.ids > 0
    /\ f # formData
    /\ formData' = f
    /\ last' = Event("setFormData", "", None, TRUE, FALSE)
    /\ UNCHANGED <<phase, view, collections, activeCollection, isGenerating, isImgGenerating,
                   isPromoGenerating, error, pendingImages, storage, loaded, calls, uploads,
                   nextId, budget, strategyHistory>>

\* faulty variant: setPendingImages([]) is missing
createCollectionKeepingPending ==
    /\ Ready
    /\ IF Falsy(formData.name)
       THEN /\ last' = Event("createCollection", "", None, FALSE, FALSE)
            /\ UNCHANGED <<phase, view, collections, activeCollection, isGenerating,
                           isImgGenerating, isPromoGenerating, error, formData, pendingImages,
                           storage, loaded, calls, uploads, nextId, budget, strategyHistory>>
       ELSE LET newColl == NewCollection(nextId, formData, pendingImages) IN
            /\ budget.ids > 0
            /\ budget' = [budget EXCEPT !.ids = @ - 1]
            /\ nextId' = nextId + 1
            /\ SetCollections(Prepend(newColl, collections), NoError)
            /\ activeCollection' = Some(newColl)
            /\ view' = Editor
            /\ formData' = EmptyForm
            /\ pendingImages' = pendingImages
            /\ last' = Event("createCollection", "", Some(newColl.id), TRUE, FALSE)
            /\ UNCHANGED <<phase, isGenerating, isImgGenerating, isPromoGenerating, loaded,
                           calls, uploads, strategyHistory>>

createCollection ==
    /\ Ready
    /\ IF Falsy(formData.name)
       THEN /\ last' = Event("createCollection", "", None, FALSE, FALSE)
            /\ UNCHANGED <<phase, view, collections, activeCollection, isGenerating,
                           isImgGenerating, isPromoGenerating, error, formData, pendingImages,
                           storage, loaded, calls, uploads, nextId, budget, strategyHistory>>
       ELSE LET newColl == NewCollection(nextId, formData, pendingImages) IN
            /\ budget.ids > 0
            /\ budget' = [budget EXCEPT !.ids = @ - 1]
            /\ nextId' = nextId + 1
            /\ SetCollections(Prepend(newColl, collections), NoError)
            /\ activeCollection' = Some(newColl)
            /\ view' = Editor
            /\ formData' = EmptyForm
            /\ pendingImages' = <<>>
            /\ last' = Event("createCollection", "", Some(newColl.id), TRUE, FALSE)
            /\ UNCHANGED <<phase, isGenerating, isImgGenerating, isPromoGenerating, loaded,
                           calls, uploads, strategyHistory>>

deleteCollection(id) ==
    /\ Ready
    /\ SetCollections(FilterOutId(collections, id), error)
    /\ IF IsSome(activeCollection) /\ Val(activeCollection).id = id
       THEN activeCollection' = None /\ view' = Dashboard
       ELSE UNCHANGED <<activeCollection, view>>
    /\ last' = Event("deleteCollection", "", Some(id), TRUE, FALSE)
    /\ UNCHANGED <<phase, isGenerating, isImgGenerating, isPromoGenerating, formData,
                   pendingImages, loaded, calls, uploads, nextId, budget, strategyHistory>>

\* the onClick of a collection card: setActiveCollection(c); setView(EDITOR)
selectCollection(i) ==
    /\ Ready
    /\ i \in 1..Len(collections)
    /\ activeCollection' = Some(collections[i])
    /\ view' = Editor
    /\ last' = Event("selectCollection", "", Some(collections[i].id), TRUE, FALSE)
    /\ UNCHANGED <<phase, collections, isGenerating, isImgGenerating, isPromoGenerating,
                   error, formData, pendingImages, storage, loaded, calls, uploads, nextId, budget,
                   strategyHistory>>

removeImageFromCollection(imageId) ==
    /\ Ready
    /\ IF ~IsSome(activeCollection)
       THEN /\ last' = RemoveEvent(imageId, None, 0)
            /\ UNCHANGED <<phase, view, collections, activeCollection, isGenerating,
                           isImgGenerating, isPromoGenerating, error, formData, pendingImages,
                           storage, loaded, calls, uploads, nextId, budget, strategyHistory>>
       ELSE LET updatedImages == FilterOutId(Val(activeCollection).images, imageId)
                updatedCollection == WithImages(Val(activeCollection), updatedImages)
            IN /\ activeCollection' = Some(updatedCollection)
               /\ SetCollections(MapReplace(collections, updatedCollection), error)
               /\ last' = RemoveEvent(imageId, Some(updatedCollection.id),
                                      Len(Val(activeCollection).images) - Len(updatedImages))
               /\ UNCHANGED <<phase, view, isGenerating, isImgGenerating, isPromoGenerating,
                              formData, pendingImages, loaded, calls, uploads, nextId, budget,
                              strategyHistory>>

\* the files of a batch that processImage resolves, each taking a fresh id
RECURSIVE Decodable(_)
Decodable(files) ==
    IF files = <<>> THEN 0
    ELSE (IF Head(files).kind = "ok" THEN 1 ELSE 0) + Decodable(Tail(files))

\* handleImageUpload up to its first await: the closure keeps the activeCollection
\* of the render the handler belongs to; the ids its images will take are
\* counted against the run when it starts
handleImageUpload(files, isForActiveCollection) ==
    /\ Ready
    /\ budget.uploads > 0
    /\ budget.ids >= Decodable(files)
    /\ budget' = [budget EXCEPT !.uploads = @ - 1, !.ids = @ - Decodable(files)]
    /\ uploads' = Append(uploads, [isForActiveCollection |-> isForActiveCollection,
                                   activeCollection |-> activeCollection,
                                   files |-> files, at |-> 1, processedImages |-> <<>>])
    /\ last' = Event("handleImageUpload", "", None, TRUE, FALSE)
    /\ UNCHANGED <<phase, view, collections, activeCollection, isGenerating, isImgGenerating,
                   isPromoGenerating, error, formData, pendingImages, storage, loaded, calls,
                   nextId, strategyHistory>>

\* processImage settles for the file the loop of upload u is at: a decoded file
\* resolves and is pushed with a fresh id, a file without a 2d context rejects and
\* is skipped; for a file that does not decode no handler is installed (neither
\* reader.onerror nor img.onerror), the promise never settles
processImage(u) ==
    /\ Ready
    /\ u \in 1..Len(uploads)
    /\ LET up == uploads[u]
           file == up.files[up.at]
           base64 == ToDataURL(up.at, CanvasSize(file.width, file.height))
       IN /\ up.at <= Len(up.files)
          /\ file.kind # "undecodable"
          /\ IF file.kind = "ok"
             THEN /\ nextId' = nextId + 1
                  /\ uploads' = [uploads EXCEPT ![u].at = @ + 1,
                                    ![u].processedImages = Append(@, NewImage(nextId, base64))]
             ELSE /\ UNCHANGED nextId
                  /\ uploads' = [uploads EXCEPT ![u].at = @ + 1]
          /\ last' = ImageEvent(file, CanvasSize(file.width, file.height))
    /\ UNCHANGED <<phase, view, collections, activeCollection, isGenerating, isImgGenerating,
                   isPromoGenerating, error, formData, pendingImages, storage, loaded, calls,
                   budget, strategyHistory>>

\* handleImageUpload after its loop
uploadCommit(u) ==
    /\ Ready
    /\ u \in 1..Len(uploads)
    /\ LET up == uploads[u] IN
       /\ up.at > Len(up.files)
       /\ uploads' = RemoveAt(uploads, u)
       /\ IF up.isForActiveCollection /\ IsSome(up.activeCollection)
          THEN LET closed == Val(up.activeCollection)
                   updatedCollection ==
                       WithImages(closed, closed.images \o up.processedImages)
               IN /\ activeCollection' = Some(updatedCollection)
                  /\ SetCollections(MapReplace(collections, updatedCollection), error)
                  /\ last' = UploadEvent(up, Some(closed.id))
                  /\ UNCHANGED pendingImages
          ELSE /\ pendingImages' = pendingImages \o up.processedImages
               /\ last' = UploadEvent(up, None)
               /\ UNCHANGED <<activeCollection, collections, storage, error>>
    /\ UNCHANGED <<phase, view, isGenerating, isImgGenerating, isPromoGenerating, formData,
                   loaded, calls, nextId, budget, strategyHistory>>

setView(v) ==
    /\ Ready
    /\ v # view
    /\ view' = v
    /\ last' = Event("setView", "", None, TRUE, FALSE)
    /\ UNCHANGED <<phase, collections, activeCollection, isGenerating, isImgGenerating,
                   isPromoGenerating, error, formData, pendingImages, storage, loaded, calls,
                   uploads, nextId, budget, strategyHistory>>

\* the Dismiss button of the notice
dismissError ==
    /\ Ready
    /\ error # NoError
    /\ error' = NoError
    /\ last' = Event("dismissError", "", None, TRUE, FALSE)
    /\ UNCHANGED <<phase, view, collections, activeCollection, isGenerating, isImgGenerating,
                   isPromoGenerating, formData, pendingImages, storage, loaded, calls, uploads,
                   nextId, budget, strategyHistory>>

----------------------------------------------------------------------------
(* The generation stages.  wrapApiCall clears the notice, runs the stage and *)
(* turns a throw into the notice BusyMsg.  A stage handler is two steps: up *)
(* to its await (the call is then in flight, with the activeCollection of   *)
(* the handler's render in its closure) and from the await on (settle).     *)

Call(stage, closed) == [stage |-> stage, activeCollection |-> closed]

handleCuration ==
    /\ Ready
    /\ error' = NoError
    /\ IF ~IsSome(activeCollection)
       THEN /\ last' = Event("handleCuration", "strategy", None, FALSE, FALSE)
            /\ UNCHANGED <<isGenerating, calls, budget>>
       ELSE /\ budget.calls > 0
            /\ budget' = [budget EXCEPT !.calls = @ - 1]
            /\ isGenerating' = TRUE
            /\ calls' = Append(calls, Call("strategy", Val(activeCollection)))
            /\ last' = Event("handleCuration", "strategy", Some(Val(activeCollection).id),
                             TRUE, FALSE)
    /\ UNCHANGED <<phase, view, collections, activeCollection, isImgGenerating,
                   isPromoGenerating, formData, pendingImages, storage, loaded, uploads,
                   nextId, strategyHistory>>

\* faulty variant: the guard on the strategy is missing
handleVisualConceptUnguarded ==
    /\ Ready
    /\ error' = NoError
    /\ IF ~IsSome(activeCollection)
       THEN /\ last' = Event("handleVisualConcept", "visual", None, FALSE, FALSE)
            /\ UNCHANGED <<isImgGenerating, calls, budget>>
       ELSE /\ budget.calls > 0
            /\ budget' = [budget EXCEPT !.calls = @ - 1]
            /\ isImgGenerating' = TRUE
            /\ calls' = Append(calls, Call("visual", Val(activeCollection)))
            /\ last' = Event("handleVisualConcept", "visual", Some(Val(activeCollection).id),
                             TRUE, FALSE)
    /\ UNCHANGED <<phase, view, collections, activeCollection, isGenerating,
                   isPromoGenerating, formData, pendingImages, storage, loaded, uploads,
                   nextId, strategyHistory>>

handleVisualConcept ==
    /\ Ready
    /\ error' = NoError
    /\ IF ~(IsSome(activeCollection) /\ IsSome(Val(activeCollection).strategy))
       THEN /\ last' = Event("handleVisualConcept", "visual", None, FALSE, FALSE)
            /\ UNCHANGED <<isImgGenerating, calls, budget>>
       ELSE /\ budget.calls > 0
            /\ budget' = [budget EXCEPT !.calls = @ - 1]
            /\ isImgGenerating' = TRUE
            /\ calls' = Append(calls, Call("visual", Val(activeCollection)))
            /\ last' = Event("handleVisualConcept", "visual", Some(Val(activeCollection).id),
                             TRUE, FALSE)
    /\ UNCHANGED <<phase, view, collections, activeCollection, isGenerating,
                   isPromoGenerating, formData, pendingImages, storage, loaded, uploads,
                   nextId, strategyHistory>>

handlePromotionalSuite ==
    /\ Ready
    /\ error' = NoError
    /\ IF ~(IsSome(activeCollection) /\ IsSome(Val(activeCollection).strategy))
       THEN /\ last' = Event("handlePromotionalSuite", "promo", None, FALSE, FALSE)
            /\ UNCHANGED <<isPromoGenerating, calls, budget>>
       ELSE /\ budget.calls > 0
            /\ budget' = [budget EXCEPT !.calls = @ - 1]
            /\ isPromoGenerating' = TRUE
            /\ calls' = Append(calls, Call("promo", Val(activeCollection)))
            /\ last' = Event("handlePromotionalSuite", "promo", Some(Val(activeCollection).id),
                             TRUE, FALSE)
    /\ UNCHANGED <<phase, view, collections, activeCollection, isGenerating,
                   isImgGenerating, formData, pendingImages, storage, loaded, uploads,
                   nextId, strategyHistory>>

\* { ...activeCollection, strategy }, { ...activeCollection, visualConceptUrl: url } and
\* { ...activeCollection, promoAssets: promo }, of the closure's activeCollection
\* faulty variant: a regenerated strategy is merged into the one already there
WithStrategyMerged(closed, strategy) ==
    IF IsSome(closed.strategy)
    THEN [closed EXCEPT !.strategy =
             Some([strategy EXCEPT !.materialsUsed = Val(closed.strategy).materialsUsed \o @])]
    ELSE [closed EXCEPT !.strategy = Some(strategy)]
WithStrategy(closed, strategy) == [closed EXCEPT !.strategy = Some(strategy)]
\* faulty variant: the result replaces the strategy it was rendered from
WithVisualConceptAlone(closed, url) ==
    [closed EXCEPT !.visualConceptUrl = Some(url), !.strategy = None]
WithVisualConcept(closed, url) == [closed EXCEPT !.visualConceptUrl = Some(url)]
WithPromoAssets(closed, promo) == [closed EXCEPT !.promoAssets = Some(promo)]

\* the notice the catch of wrapApiCall sets for the Error it caught: the
\* Error goes to console.error, the notice is the same for every Error
wrapApiCallCatch(err) == BusyMsg

\* faulty variant of the catch: the failed stage also drops the active collection
ThrownAndReset(c, stage, err) ==
    /\ error' = wrapApiCallCatch(err)
    /\ calls' = RemoveAt(calls, c)
    /\ activeCollection' = None
    /\ last' = Event("settle", stage, Some(calls[c].activeCollection.id), FALSE, FALSE)
    /\ UNCHANGED <<phase, view, collections, isGenerating, isImgGenerating,
                   isPromoGenerating, formData, pendingImages, storage, loaded, uploads,
                   nextId, budget, strategyHistory>>

\* the catch of wrapApiCall: the statements after the await are skipped
Thrown(c, stage, err) ==
    /\ error' = wrapApiCallCatch(err)
    /\ calls' = RemoveAt(calls, c)
    /\ last' = Event("settle", stage, Some(calls[c].activeCollection.id), FALSE, FALSE)
    /\ UNCHANGED <<phase, view, collections, activeCollection, isGenerating, isImgGenerating,
                   isPromoGenerating, formData, pendingImages, storage, loaded, uploads,
                   nextId, budget, strategyHistory>>

\* handleCuration from its await on
settleCuration(c, resp) ==
    /\ c \in 1..Len(calls)
    /\ calls[c].stage = "strategy"
    /\ LET closed == calls[c].activeCollection
           strategy == generateExhibitionStrategy(resp)
       IN IF ~strategy.ok
          THEN Thrown(c, "strategy", strategy.err)
          ELSE LET updated == WithStrategy(closed, Val(strategy.value)) IN
               /\ activeCollection' = Some(updated)
               /\ SetCollections(MapReplace(collections, updated), error)
               /\ isGenerating' = FALSE
               /\ calls' = RemoveAt(calls, c)
               /\ strategyHistory' = [strategyHistory EXCEPT !.applied = @ \cup {closed.id}]
               /\ last' = Event("settle", "strategy", Some(closed.id), TRUE,
                                IsSome(closed.strategy) /\ closed.strategy # strategy.value)
               /\ UNCHANGED <<phase, view, isImgGenerating, isPromoGenerating, formData,
                              pendingImages, loaded, uploads, nextId, budget>>

\* handleVisualConcept from its await on
settleVisualConcept(c, resp) ==
    /\ c \in 1..Len(calls)
    /\ calls[c].stage = "visual"
    /\ LET closed == calls[c].activeCollection
           url == generateVisualConcept(resp)
       IN IF ~url.ok
          THEN Thrown(c, "visual", url.err)
          ELSE LET updated == WithVisualConcept(closed, Val(url.value)) IN
               /\ activeCollection' = Some(updated)
               /\ SetCollections(MapReplace(collections, updated), error)
               /\ isImgGenerating' = FALSE
               /\ calls' = RemoveAt(calls, c)
               /\ last' = Event("settle", "visual", Some(closed.id), TRUE,
                                IsSome(closed.visualConceptUrl)
                                    /\ closed.visualConceptUrl # url.value)
               /\ UNCHANGED <<phase, view, isGenerating, isPromoGenerating, formData,
                              pendingImages, loaded, uploads, nextId, budget, strategyHistory>>

\* handlePromotionalSuite from its await on
settlePromotionalSuite(c, copyResp, posterResp) ==
    /\ c \in 1..Len(calls)
    /\ calls[c].stage = "promo"
    /\ LET closed == calls[c].activeCollection
           promo == generatePromotionalSuite(Val(closed.strategy), copyResp, posterResp)
       IN IF ~promo.ok
          THEN Thrown(c, "promo", promo.err)
          ELSE LET updated == WithPromoAssets(closed, Val(promo.value)) IN
               /\ activeCollection' = Some(updated)
               /\ SetCollections(MapReplace(collections, updated), error)
               /\ isPromoGenerating' = FALSE
               /\ calls' = RemoveAt(calls, c)
               /\ last' = Event("settle", "promo", Some(closed.id), TRUE,
                                IsSome(closed.promoAssets) /\ closed.promoAssets # promo.value)
               /\ UNCHANGED <<phase, view, isGenerating, isImgGenerating, formData,
                              pendingImages, loaded, uploads, nextId, budget, strategyHistory>>

\* the asynchronous continuations: effects of the mount, settled promises
Continuations ==
    \/ Mount
    \/ RenderLoaded
    \/ \E u \in 1..Len(uploads) : processImage(u)
    \/ \E u \in 1..Len(uploads) : uploadCommit(u)
    \/ \E c \in 1..Len(calls), resp \in StrategyResponses :
           settleCuration(c, resp)
    \/ \E c \in 1..Len(calls), resp \in ImageResponses :
           settleVisualConcept(c, resp)
    \/ \E c \in 1..Len(calls), copyResp \in CopyResponses, posterResp \in PosterResponses : settlePromotionalSuite(c, copyResp, posterResp)

----------------------------------------------------------------------------
(* The rendered controls: which handler a user event reaches in a state *)

\* components/Button: a button with isLoading set does not fire onClick
ButtonEnabled(isLoading) == ~isLoading

DashboardShown == Ready /\ view = Dashboard
EditorShown == Ready /\ view = Editor /\ IsSome(activeCollection)

changeForm(f) == DashboardShown /\ setFormData(f)
clickCreateArchive == DashboardShown /\ createCollection
clickCard(i) == DashboardShown /\ selectCollection(i)
clickDeleteCard(i) ==
    DashboardShown /\ i \in 1..Len(collections) /\ deleteCollection(collections[i].id)
chooseFilesDashboard(files) == DashboardShown /\ handleImageUpload(files, FALSE)
chooseFilesEditor(files) == EditorShown /\ handleImageUpload(files, TRUE)
clickRemoveImage(k) ==
    /\ EditorShown
    /\ k \in 1..Len(Val(activeCollection).images)
    /\ removeImageFromCollection(Val(activeCollection).images[k].id)
clickDraftStrategy ==
    /\ EditorShown
    /\ ~IsSome(Val(activeCollection).strategy)
    /\ ButtonEnabled(isGenerating)
    /\ handleCuration
clickRenderConcept ==
    /\ EditorShown
    /\ IsSome(Val(activeCollection).strategy)
    /\ ~IsSome(Val(activeCollection).visualConceptUrl)
    /\ ButtonEnabled(isImgGenerating)
    /\ handleVisualConcept
\* faulty variant: the campaign buttons are not given isLoading
clickCampaignNotLoading ==
    /\ EditorShown
    /\ IsSome(Val(activeCollection).strategy)
    /\ handlePromotionalSuite

\* "Generate Campaign Assets" without promoAssets, "Refresh Campaign" with them
clickCampaign ==
    /\ EditorShown
    /\ IsSome(Val(activeCollection).strategy)
    /\ ButtonEnabled(isPromoGenerating)
    /\ handlePromotionalSuite
clickCollections == setView(Dashboard)
clickCurationDeck == Ready /\ IsSome(activeCollection) /\ setView(Editor)
clickDismiss == dismissError

UserEvents ==
    \/ \E f \in FormInputs : changeForm(f)
    \/ clickCreateArchive
    \/ \E i \in 1..Len(collections) : clickCard(i)
    \/ \E i \in 1..Len(collections) : clickDeleteCard(i)
    \/ \E files \in Batches : chooseFilesDashboard(files)
    \/ \E files \in Batches : chooseFilesEditor(files)
    \/ \E k \in 1..MaxId : clickRemoveImage(k)
    \/ clickDraftStrategy
    \/ clickRenderConcept
    \/ clickCampaign
    \/ clickCollections
    \/ clickCurationDeck
    \/ clickDismiss

\* the application: user events reach the handlers through the rendered controls
Next == Continuations \/ UserEvents
Spec == Init /\ [][Next]_vars

\* the stage handlers as the contract of the orchestrator: beside the user
\* events, a stage handler may be invoked in any state of the mounted
\* component, whether or not its button is rendered and enabled
HandlerCalls ==
    \/ handleCuration
    \/ handleVisualConcept
    \/ handlePromotionalSuite

NextHandlers == Next \/ HandlerCalls
SpecHandlers == Init /\ [][NextHandlers]_vars

\* the handlers of the collection store as its contract: any of them may be
\* invoked in any state of the mounted component, with any argument, in a
\* run that starts no generation
StoreBudgets == {[calls |-> 0, uploads |-> 1, ids |-> MaxId + 1]}
\* a slot left by a session in which two images were uploaded to the collection
PersistedLook ==
    [PersistedCollection EXCEPT
        !.images = <<NewImage(0 - 1, ToDataURL(1, CanvasSize(1, 1))),
                     NewImage(0 - 2, ToDataURL(2, CanvasSize(1, 1)))>>]
StoreSlots == {Absent, Stringify(<<PersistedLook>>)}
StoreForms == {EmptyForm, [name |-> "Satori", season |-> "FW25", description |-> ""]}
\* the arguments of deleteCollection and removeImageFromCollection: the ids
\* of the collections of the list, of the images of the active collection,
\* and an id that nothing has
StoreIds ==
    {collections[i].id : i \in 1..Len(collections)}
        \cup (IF IsSome(activeCollection)
              THEN {Val(activeCollection).images[k].id :
                        k \in 1..Len(Val(activeCollection).images)}
              ELSE {})
        \cup {nextId}
StoreBatches == { <<File("ok", 1, 1)>> }
InitStore == InitWith(StoreBudgets, StoreSlots)
NextStore ==
    \/ Mount
    \/ RenderLoaded
    \/ \E f \in StoreForms : setFormData(f)
    \/ createCollection
    \/ \E id \in StoreIds : deleteCollection(id)
    \/ \E i \in 1..Len(collections) : selectCollection(i)
    \/ \E imageId \in StoreIds : removeImageFromCollection(imageId)
    \/ \E files \in StoreBatches, b \in BOOLEAN : handleImageUpload(files, b)
    \/ \E u \in 1..Len(uploads) : processImage(u)
    \/ \E u \in 1..Len(uploads) : uploadCommit(u)
SpecStore == InitStore /\ [][NextStore]_vars

\* the upload of a batch by itself: batches of MaxFiles files of every kind,
\* for the dashboard or for the collection that was opened
UploadBudgets == {[calls |-> 0, uploads |-> 1, ids |-> MaxFiles]}
UploadBatches ==
    { [i \in 1..MaxFiles |-> File(kinds[i], 1, 1)] : kinds \in [1..MaxFiles -> FileKinds] }
InitUploads == InitWith(UploadBudgets, InitialSlots)
NextUploads ==
    \/ Mount
    \/ RenderLoaded
    \/ \E i \in 1..Len(collections) : selectCollection(i)
    \/ \E files \in UploadBatches, b \in BOOLEAN : handleImageUpload(files, b)
    \/ \E u \in 1..Len(uploads) : processImage(u)
    \/ \E u \in 1..Len(uploads) : uploadCommit(u)
SpecUploads == InitUploads /\ [][NextUploads]_vars

\* the event loop runs every promise reaction that is ready and every
\* continuation of an await whose promise has settled
FairUploads ==
    /\ WF_vars(\E u \in 1..Len(uploads) : processImage(u))
    /\ WF_vars(\E u \in 1..Len(uploads) : uploadCommit(u))
SpecUploadsFair == SpecUploads /\ FairUploads

\* the normaliser by itself: one image, of the sizes around
\* MAX_IMAGE_DIMENSION, chosen in the file input of the dashboard
Edges == {1, 49, 561, 1023, 1024, 1025, 1122, 1568, 2048, 2049, 3000, 4096}
ImageBudgets == {[calls |-> 0, uploads |-> 1, ids |-> 1]}
InitImages == InitWith(ImageBudgets, InitialSlots)
NextImages ==
    \/ Mount
    \/ RenderLoaded
    \/ \E w \in Edges, h \in Edges : handleImageUpload(<<File("ok", w, h)>>, FALSE)
    \/ \E u \in 1..Len(uploads) : processImage(u)
    \/ \E u \in 1..Len(uploads) : uploadCommit(u)
SpecImages == InitImages /\ [][NextImages]_vars

\* the parser by itself: the strategy call of an opened collection returns
\* a JSON text of at most MaxText symbols, as it is or in a code fence
ParseSymbols == {Tick, Json, Newline, Quote, "{X}"}
ParseTexts == UNION {[1..n -> ParseSymbols] : n \in 0..MaxText}
ParseJsonTexts == {T \in ParseTexts : JsonParse(T).ok}
Fenced(T) == FenceOpen \o <<Newline>> \o T \o Fence
ParseBudgets == {[calls |-> 1, uploads |-> 0, ids |-> 0]}
InitParse == InitWith(ParseBudgets, InitialSlots)
NextParse ==
    \/ Mount
    \/ RenderLoaded
    \/ \E i \in 1..Len(collections) : selectCollection(i)
    \/ \E v \in {Dashboard, Editor} : setView(v)
    \/ handleCuration
    \/ \E c \in 1..Len(calls), T \in ParseJsonTexts :
           settleCuration(c, TextResp(T)) \/ settleCuration(c, TextResp(Fenced(T)))
SpecParse == InitParse /\ [][NextParse]_vars

----------------------------------------------------------------------------
(* Properties *)

Busy(stage) ==
    CASE stage = "strategy" -> isGenerating
      [] stage = "visual" -> isImgGenerating
      [] OTHER -> isPromoGenerating

InFlight(stage) == {c \in 1..Len(calls) : calls[c].stage = stage}
ListIds == {collections[i].id : i \in 1..Len(collections)}
ActiveId == Val(activeCollection).id

\* C1: whenever an active collection exists and the list has an entry with its
\* id, that entry equals the active collection (images in order, strategy,
\* visualConceptUrl, promoAssets and every other field).
C1_MirrorEquality ==
    (Ready /\ IsSome(activeCollection)) =>
        \A i \in 1..Len(collections) :
            collections[i].id = ActiveId => collections[i] = Val(activeCollection)

\* a stage result or an upload batch has just been written through a closure,
\* and the active collection has its entry among the two of the list
C1_Witness ==
    /\ last.op \in {"settle", "uploadCommit"}
    /\ last.ok
    /\ IsSome(activeCollection)
    /\ ActiveId \in ListIds
    /\ Len(collections) = 2
    /\ Val(activeCollection).images # <<>> \/ IsSome(Val(activeCollection).promoAssets)

\* C2: when a stage call started for collection A resolves while another
\* collection B is active, the list entry with A's id carries the result (it is
\* the closure's collection with the result attached) and every other entry of
\* the list, B's among them, is as before.
C2_StaleResultGoesToItsCollection ==
    [][(/\ last'.op = "settle"
        /\ last'.ok
        /\ IsSome(activeCollection)
        /\ Some(ActiveId) # last'.cid)
       => /\ Len(collections') = Len(collections)
          /\ \A i \in 1..Len(collections) :
                IF collections[i].id = Val(last'.cid)
                THEN /\ collections'[i] = Val(activeCollection')
                     /\ collections'[i].id = Val(last'.cid)
                     /\ \/ last'.stage = "strategy" /\ IsSome(collections'[i].strategy)
                        \/ last'.stage = "visual" /\ IsSome(collections'[i].visualConceptUrl)
                        \/ last'.stage = "promo" /\ IsSome(collections'[i].promoAssets)
                ELSE collections'[i] = collections[i]]_vars

\* a call for A has resolved while B was active, both being in the list
C2_Witness ==
    /\ last.op = "settle"
    /\ last.ok
    /\ IsSome(last.act)
    /\ last.act # last.cid
    /\ Val(last.cid) \in ListIds
    /\ Val(last.act) \in ListIds

\* C3: a failed stage attempt changes no collection: neither the step that
\* triggers the stage nor the step in which its call fails changes the
\* collections list or the active collection.
C3_FailedStageChangesNothing ==
    [][(\/ last'.op = "settle" /\ ~last'.ok
        \/ last'.op \in {"handleCuration", "handleVisualConcept", "handlePromotionalSuite"})
       => UNCHANGED <<collections, activeCollection>>]_vars

\* the call of a stage has just failed for a collection of the list while
\* another collection was active
C3_Witness ==
    /\ last.op = "settle"
    /\ ~last.ok
    /\ error = BusyMsg
    /\ Val(last.cid) \in ListIds
    /\ IsSome(activeCollection)
    /\ Some(ActiveId) # last.cid

\* C4: once the external call of a stage has settled, resolved or rejected, the
\* busy flag of that stage is false.
C4_BusyClearedWhenSettled ==
    [][\A stage \in Stages :
          (last'.op = "settle" /\ last'.stage = stage) => ~Busy(stage)']_vars

\* C5: no two external calls are outstanding for the same collection id.
C5_OneCallPerCollection ==
    \A c, d \in 1..Len(calls) :
        c # d => calls[c].activeCollection.id # calls[d].activeCollection.id

C7_StrategyAppliedBefore ==
    \A c \in 1..Len(calls) :
        calls[c].stage \in {"visual", "promo"}
            => calls[c].activeCollection.id \in strategyHistory.applied

\* C7 amended: every call of the visual concept stage or of the promotional
\* stage for collection c comes after a strategy result was applied to c in
\* this run, or c was loaded from the slot with a strategy; the closure of the
\* call holds a strategy.
C7_StrategyAppliedOrLoadedBefore ==
    \A c \in 1..Len(calls) :
        calls[c].stage \in {"visual", "promo"}
            => /\ calls[c].activeCollection.id
                      \in strategyHistory.applied \cup strategyHistory.loaded
               /\ IsSome(calls[c].activeCollection.strategy)

\* a visual concept call is outstanding for a collection created in this run
C7_Witness ==
    \E c \in 1..Len(calls) :
        /\ calls[c].stage = "visual"
        /\ calls[c].activeCollection.id \in strategyHistory.applied
        /\ calls[c].activeCollection.id \notin strategyHistory.loaded

\* C8: handleVisualConcept or handlePromotionalSuite, invoked with no active
\* collection or with an active collection without strategy, starts no call
\* and leaves the list, the active collection, the pending images, the busy
\* flags and the notice unchanged.
C8_NoStrategyNoEffect ==
    [][(/\ last'.op \in {"handleVisualConcept", "handlePromotionalSuite"}
        /\ ~(IsSome(activeCollection) /\ IsSome(Val(activeCollection).strategy)))
       => UNCHANGED <<collections, activeCollection, pendingImages, isGenerating,
                      isImgGenerating, isPromoGenerating, error, calls>>]_vars

FieldIs(id, field, value) ==
    /\ IsSome(activeCollection)
    /\ ActiveId = id
    /\ Val(activeCollection)[field] = Some(value)
    /\ \A i \in 1..Len(collections) :
          collections[i].id = id => collections[i][field] = Some(value)

\* C9: when a stage is run again on a collection that has that stage's output
\* and the new call succeeds, the field of the stage is exactly the new result,
\* in the active collection and in the list entry of that id.
C9_RegenerationReplaces ==
    [][\A c \in 1..Len(calls) :
          \A closed \in {calls[c].activeCollection} :
          /\ (calls[c].stage = "strategy" /\ IsSome(closed.strategy))
                => \A resp \in StrategyResponses :
                      \A new \in {generateExhibitionStrategy(resp)} :
                      (new.ok /\ settleCuration(c, resp))
                      => FieldIs(closed.id, "strategy", Val(new.value))'
          /\ (calls[c].stage = "visual" /\ IsSome(closed.visualConceptUrl))
                => \A resp \in ImageResponses :
                      \A new \in {generateVisualConcept(resp)} :
                      (new.ok /\ settleVisualConcept(c, resp))
                      => FieldIs(closed.id, "visualConceptUrl", Val(new.value))'
          /\ (calls[c].stage = "promo" /\ IsSome(closed.promoAssets))
                => \A copyResp \in CopyResponses, posterResp \in PosterResponses :
                      \A new \in {generatePromotionalSuite(Val(closed.strategy), copyResp,
                                                           posterResp)} :
                      (new.ok /\ settlePromotionalSuite(c, copyResp, posterResp))
                      => FieldIs(closed.id, "promoAssets", Val(new.value))']_vars

\* a strategy has just been regenerated to a different one, the collection
\* being in the list
C9_Witness ==
    /\ last.op = "settle"
    /\ last.ok
    /\ last.replaced
    /\ last.stage = "strategy"
    /\ Val(last.cid) \in ListIds

\* C10: createCollection with an empty or whitespace-only name leaves the
\* list, the active collection, the view and the pending images unchanged.
C10_BlankNameIsNoOp ==
    [][(last'.op = "createCollection" /\ Blank(formData.name))
       => UNCHANGED <<collections, activeCollection, view, pendingImages>>]_vars

\* C11: createCollection with a valid name puts a new collection of a fresh id
\* at index 0 of the list, the previous entries following in their order, makes
\* it the active collection, gives it the form's fields and exactly the pending
\* images in their order, with strategy, visualConceptUrl and promoAssets
\* absent, and leaves the pending-image buffer empty.
C11_CreatePrepends ==
    [][(last'.op = "createCollection" /\ ~Blank(formData.name))
       => /\ Len(collections') = Len(collections) + 1
          /\ Tail(collections') = collections
          /\ Head(collections').id \notin ListIds
          /\ activeCollection' = Some(Head(collections'))
          /\ Head(collections').name = formData.name
          /\ Head(collections').season = formData.season
          /\ Head(collections').description = formData.description
          /\ Head(collections').images = pendingImages
          /\ Head(collections').strategy = None
          /\ Head(collections').visualConceptUrl = None
          /\ Head(collections').promoAssets = None
          /\ pendingImages' = <<>>]_vars

\* "Satori" has just been created in front of an older collection, with the
\* image that was pending
C11_Witness ==
    /\ last.op = "createCollection"
    /\ last.ok
    /\ Len(collections) = 2
    /\ collections[1].name = "Satori"
    /\ Len(collections[1].images) = 1
    /\ collections[2] = PersistedLook
    /\ pendingImages = <<>>

\* C12: deleteCollection(id) removes exactly the list entries of that id and
\* keeps every other entry, unchanged and in the same relative order; the
\* active collection becomes absent if its id is id and is otherwise left as
\* it is; the pending-image buffer is unchanged.
C12_DeleteRemovesExactlyId ==
    [][last'.op = "deleteCollection"
       => \A id \in {Val(last'.cid)} :
            /\ collections' = SelectSeq(collections, LAMBDA c : c.id # id)
            /\ IF IsSome(activeCollection) /\ ActiveId = id
               THEN activeCollection' = None
               ELSE activeCollection' = activeCollection
            /\ pendingImages' = pendingImages]_vars

\* of three collections the middle one has just been deleted while the first
\* one is active
C12_Witness ==
    /\ last.op = "deleteCollection"
    /\ last.cid = Some(1)
    /\ Len(collections) = 2
    /\ collections[1].id = 2
    /\ collections[1].images = <<>>
    /\ collections[2] = PersistedLook
    /\ IsSome(activeCollection)
    /\ ActiveId = 2
    /\ budget.uploads = 1
    /\ nextId = 3

\* C13: when an upload batch completes and no collection is active, its
\* images are appended to the pending-image buffer and no collection changes;
\* when a collection is active, they are appended to the image sequence of
\* that collection, in the active copy and in its list entry, and the
\* pending-image buffer is unchanged.
C13_BatchGoesToActiveElsePending ==
    [][last'.op = "uploadCommit"
       => \A added \in {last'.added} :
            IF ~IsSome(activeCollection)
            THEN /\ pendingImages' = pendingImages \o added
                 /\ collections' = collections
                 /\ activeCollection' = activeCollection
            ELSE /\ activeCollection' =
                       Some([Val(activeCollection) EXCEPT !.images = @ \o added])
                 /\ Len(collections') = Len(collections)
                 /\ \A i \in 1..Len(collections) :
                        collections[i].id = ActiveId
                            => collections'[i].images = collections[i].images \o added
                 /\ pendingImages' = pendingImages]_vars

\* C14: removeImageFromCollection(imageId) removes from the image sequence of
\* the active collection exactly the images of that id and keeps the others in
\* their order, leaves every other field of the collection and every other
\* collection unchanged, applies the same change to the list entry, and
\* leaves the image sequence as it is when no image has that id or no
\* collection is active.
C14_RemoveImageExactly ==
    [][last'.op = "removeImageFromCollection"
       => \A imageId \in {last'.imageId} :
            IF ~IsSome(activeCollection)
            THEN UNCHANGED <<activeCollection, collections, pendingImages>>
            ELSE /\ activeCollection' =
                       Some([Val(activeCollection) EXCEPT
                                !.images = SelectSeq(@, LAMBDA img : img.id # imageId)])
                 /\ Len(collections') = Len(collections)
                 /\ \A i \in 1..Len(collections) :
                        collections'[i] =
                            IF collections[i].id = ActiveId
                            THEN [collections[i] EXCEPT
                                     !.images = SelectSeq(@, LAMBDA img : img.id # imageId)]
                            ELSE collections[i]
                 /\ (\A k \in 1..Len(Val(activeCollection).images) :
                        Val(activeCollection).images[k].id # imageId)
                        => Val(activeCollection').images = Val(activeCollection).images
                 /\ pendingImages' = pendingImages]_vars

\* the first of the two images of the active collection has just been
\* removed, the second is left, in the active copy and in its entry, beside
\* another collection
C14_Witness ==
    /\ last.op = "removeImageFromCollection"
    /\ last.removed = 1
    /\ IsSome(activeCollection)
    /\ Len(Val(activeCollection).images) = 1
    /\ Val(activeCollection).images[1].id = last.imageId + 1
    /\ Len(collections) = 2
    /\ \E i \in 1..2 : collections[i] = Val(activeCollection)

\* C15: an upload of one image to the active collection followed by
\* removeImageFromCollection with the id of that image leaves the image
\* sequence the collection had when the upload was started, in content and
\* order, in the active copy and in the list entry.
C15_AddThenRemoveRestores ==
    [][(/\ last.op = "uploadCommit"
        /\ last.isForActiveCollection
        /\ IsSome(last.closed)
        /\ Len(last.added) = 1
        /\ last'.op = "removeImageFromCollection"
        /\ last'.imageId = last.added[1].id)
       => \A S \in {Val(last.closed).images} :
            /\ \A k \in 1..Len(S) : S[k].id # last.added[1].id
            /\ IsSome(activeCollection')
            /\ Val(activeCollection').id = Val(last.closed).id
            /\ Val(activeCollection').images = S
            /\ \A i \in 1..Len(collections') :
                   collections'[i].id = Val(last.closed).id => collections'[i].images = S]_vars

\* the image uploaded to a collection of two images has just been removed
\* again, and the entry of the collection has its two images
C15_Witness ==
    /\ last.op = "removeImageFromCollection"
    /\ last.removed = 1
    /\ last.imageId > 0
    /\ IsSome(activeCollection)
    /\ Val(activeCollection).images = PersistedLook.images
    /\ \E i \in 1..Len(collections) : collections[i] = Val(activeCollection)
    /\ budget.uploads = 0
    /\ uploads = <<>>

\* C16: an upload batch in which some files fail to decode still reaches its
\* end: the batch is committed, and the images it adds are exactly those of
\* the files that decoded, in the order of the files.
C16_FailingFileIsSkipped ==
    /\ [][last'.op = "uploadCommit"
           => \A files \in {last'.files}, added \in {last'.added} :
                \A decoded \in {SelectSeq([k \in 1..Len(files) |-> k],
                                          LAMBDA k : files[k].kind = "ok")} :
                    /\ Len(added) = Len(decoded)
                    /\ \A j \in 1..Len(added) : added[j].url[2] = decoded[j]]_vars
    /\ (uploads # <<>>) ~> (uploads = <<>>)

\* C17: for every source image of positive integer dimensions (W, H), the
\* dimensions (w, h) of the canvas processImage draws it on satisfy
\* max(w, h) <= 1024, w <= W and h <= H.
C17_CanvasWithinBounds ==
    (last.op = "processImage" /\ last.ok)
        => /\ last.size.width <= 1024
           /\ last.size.height <= 1024
           /\ last.size.width <= last.file.width
           /\ last.size.height <= last.file.height

\* an image of 3000 by 2049 has just been drawn on a canvas of 1024 by 699
C17_Witness ==
    /\ last.op = "processImage"
    /\ last.ok
    /\ last.file.width = 3000
    /\ last.file.height = 2049
    /\ last.size = [width |-> 1024, height |-> 699]

\* the reference scaling rule: the size as it is when both edges are within
\* 1024, else the longer edge 1024 and the shorter edge the integer part of
\* shorter * 1024 / longer
C18_Reference(W, H) ==
    IF W <= 1024 /\ H <= 1024 THEN [width |-> W, height |-> H]
    ELSE IF W > H THEN [width |-> 1024, height |-> (H * 1024) \div W]
    ELSE [width |-> (W * 1024) \div H, height |-> 1024]

\* C18: the dimensions of the canvas are those of the reference scaling rule
\* for every (W, H), W = H included.
C18_CanvasIsReference ==
    (last.op = "processImage" /\ last.ok)
        => last.size = C18_Reference(last.file.width, last.file.height)

\* the step that left event e ran the save effect: it rendered a list handed
\* to setCollections, or it was the first render
C19_Saved(e) ==
    \/ e.op \in {"mount", "deleteCollection"}
    \/ e.op \in {"load", "createCollection", "removeImageFromCollection", "settle"} /\ e.ok
    \/ e.op = "uploadCommit" /\ IsSome(e.cid)

\* C19: when the write of the save effect fails because the quota is
\* exceeded, no fault propagates (the component stays mounted), the list in
\* memory is the one the write was attempted with, the slot keeps what it
\* held, and the storage-full notice is set.
C19_QuotaFaultIsReported ==
    [][(C19_Saved(last') /\ SetItem(collections') = "quota")
       => /\ phase' = "ready"
          /\ storage' = storage
          /\ storage' # Stringify(collections')
          /\ error' = FullMsg]_vars

\* C20: at startup, when the slot is absent or holds a text that does not
\* parse, or one that parses to a value that is not a list, the list in memory
\* is the empty list and the component is mounted and ready.  (The load event
\* is ok when the value it rendered was a list.)
C20_BadSlotYieldsEmptyList ==
    /\ (last.op = "mount" /\ ~IsSome(loaded)) => (phase = "ready" /\ collections = <<>>)
    /\ (last.op = "load" /\ ~last.ok) => (phase = "ready" /\ collections = <<>>)

\* the step that left event e handed a list to setCollections
C21_Mutation(e) ==
    \/ e.op = "deleteCollection"
    \/ e.op \in {"load", "createCollection", "removeImageFromCollection", "settle"} /\ e.ok
    \/ e.op = "uploadCommit" /\ IsSome(e.cid)

\* C21: the slot is read once, by the load effect of the mount, which runs
\* once; every change of the collections list is made by a step that hands a
\* list to setCollections (load, create, delete, image add or remove, stage
\* result), and every such step ends with a save attempt of the full list it
\* leaves: the slot then holds that list, or the write did not fit the quota
\* and the slot is as before.
C21_OneLoadAndSaveAfterEveryMutation ==
    /\ [][(last'.op = "mount" \/ (loaded' # loaded /\ IsSome(loaded')))
           => (last'.op = "mount" /\ phase = "constructed" /\ phase' # "constructed")]_vars
    /\ [][phase # "constructed" => phase' # "constructed"]_vars
    /\ [][collections' # collections => C21_Mutation(last')]_vars
    /\ [][C21_Mutation(last')
           => storage' = IF SetItem(collections') = "ok"
                         THEN Stringify(collections') ELSE storage]_vars

\* the list loaded at startup has been grown by a collection, a stage result
\* has just been applied, and the slot holds the list of two
C21_Witness ==
    /\ last.op = "settle"
    /\ last.ok
    /\ strategyHistory.loaded # {}
    /\ Len(collections) = 2
    /\ Val(last.cid) \in ListIds
    /\ storage = Stringify(collections)

\* the Errors a stage can fail with
StageErrors == ApiErrors \cup {UnavailableMsg, FormatMsg, RenderMsg}

\* the step settles a call of a stage that failed with err
C22_FailsWith(err) ==
    \E c \in 1..Len(calls) :
        \/ /\ calls[c].stage = "strategy"
           /\ \E resp \in StrategyResponses :
                 /\ generateExhibitionStrategy(resp) = Throw(err)
                 /\ settleCuration(c, resp)
        \/ /\ calls[c].stage = "visual"
           /\ \E resp \in ImageResponses :
                 /\ generateVisualConcept(resp) = Throw(err)
                 /\ settleVisualConcept(c, resp)
        \/ /\ calls[c].stage = "promo"
           /\ \E copyResp \in CopyResponses, posterResp \in PosterResponses :
                 /\ generatePromotionalSuite(Val(calls[c].activeCollection.strategy),
                                             copyResp, posterResp) = Throw(err)
                 /\ settlePromotionalSuite(c, copyResp, posterResp)

\* C22: when the text of a structured response does not parse, the notice the
\* stage handler leaves is not the notice it leaves for any other failure of a
\* stage (a rejected call, an empty text, no image returned).
C22_MalformedResponseIsDistinguished ==
    [][C22_FailsWith(FormatMsg)
       => /\ error' # NoError
          /\ \A other \in StageErrors \ {FormatMsg} : error' # wrapApiCallCatch(other)]_vars

\* C23: when the external capability rejects the credential during a stage,
\* the notice the stage handler leaves is not the notice it leaves for any
\* other failure of a stage.
C23_CredentialRejectionIsDistinguished ==
    [][C22_FailsWith(CredentialRejected)
       => /\ error' # NoError
          /\ \A other \in StageErrors \ {CredentialRejected} :
                error' # wrapApiCallCatch(other)]_vars

\* both calls of the promotional stage succeeded: the copy call returned a
\* text that parses to an object with both fields, the poster call returned an
\* inline image
C24_BothSucceeded(copyResp, posterResp) ==
    /\ ~copyResp.rejected
    /\ parseGeminiJson(copyResp.text).ok
    /\ Val(parseGeminiJson(copyResp.text).value).instagramCaption # Undefined
    /\ Val(parseGeminiJson(copyResp.text).value).pressSnippet # Undefined
    /\ ~posterResp.rejected
    /\ IsSome(FirstInlineData(posterResp.parts))

\* C24: the promotional stage attaches promoAssets only when both of its
\* calls succeeded; otherwise (the copy text empty or not parsing, the poster
\* response without inline image, a call rejected) the stage fails with the
\* notice and leaves the list and the active collection, promoAssets
\* included, as they were.
C24_PromoNeedsBothCalls ==
    [][\A c \in 1..Len(calls) :
          calls[c].stage = "promo"
          => \A copyResp \in CopyResponses, posterResp \in PosterResponses :
                (/\ ~C24_BothSucceeded(copyResp, posterResp)
                 /\ settlePromotionalSuite(c, copyResp, posterResp))
                => /\ error' # NoError
                   /\ UNCHANGED <<collections, activeCollection>>]_vars

\* C25: generateVisualConcept returns (as a data URL) the payload of the first
\* part with an inline image among the parts of the first candidate, the
\* parts without one being skipped, and handleVisualConcept attaches it; when
\* the call is rejected or there is no such part the stage fails and the
\* list and the active collection, visualConceptUrl included, are unchanged.
C25_FirstInlineImage ==
    [][\A c \in 1..Len(calls) :
          calls[c].stage = "visual"
          => \A resp \in ImageResponses :
                settleVisualConcept(c, resp)
                => \A images \in {SelectSeq(resp.parts, LAMBDA part : part.inlineData # None)} :
                      IF ~resp.rejected /\ images # <<>>
                      THEN /\ generateVisualConcept(resp)
                                = Return(PngUrl(images[1].inlineData[1]))
                           /\ IsSome(activeCollection')
                           /\ Val(activeCollection').visualConceptUrl
                                = Some(PngUrl(images[1].inlineData[1]))
                      ELSE /\ ~generateVisualConcept(resp).ok
                           /\ error' # NoError
                           /\ UNCHANGED <<collections, activeCollection>>]_vars

\* the response had a text part and then the images A and B, and the visual
\* concept of the collection is now A, in the active copy and in the list
C25_Witness ==
    /\ last.op = "settle"
    /\ last.stage = "visual"
    /\ last.ok
    /\ IsSome(activeCollection)
    /\ Val(activeCollection).visualConceptUrl = Some(PngUrl("A"))
    /\ \E i \in 1..Len(collections) : collections[i] = Val(activeCollection)

\* C26: for every JSON text T, parseGeminiJson of T in a code fence (the
\* fence with the json tag, a newline, T, the closing fence) returns what
\* parseGeminiJson of T returns, and a step in which the strategy stage
\* settles on T is a step in which it settles on the fenced T.
C26_FenceIsTransparent ==
    [][\A c \in 1..Len(calls) :
          (calls[c].stage = "strategy" /\ calls' = RemoveAt(calls, c))
          => \A T \in ParseJsonTexts :
                settleCuration(c, TextResp(T))
                => /\ parseGeminiJson(Fenced(T)) = parseGeminiJson(T)
                   /\ settleCuration(c, TextResp(Fenced(T)))]_vars

\* the response was a JSON string of nothing but a code fence (or the empty
\* string), and the strategy applied is the empty string
C26_Witness ==
    /\ last.op = "settle"
    /\ last.stage = "strategy"
    /\ last.ok
    /\ IsSome(activeCollection)
    /\ Val(activeCollection).strategy = Some([string |-> <<>>])
    /\ JsonParse(<<Quote>> \o Fence \o <<Quote>>).ok
    /\ <<Quote>> \o Fence \o <<Quote>> \in ParseJsonTexts

\* the step is a failure of a generation stage
C27_StageFailed == last'.op = "settle" /\ ~last'.ok
\* the step ran the save effect and its write did not fit the quota
C27_StorageFull ==
    (last'.op = "mount" \/ C21_Mutation(last')) /\ SetItem(collections') = "quota"

\* C27: a step in which a stage fails or the storage is full leaves the
\* notice of that failure, and a notice that is shown is removed or replaced
\* only by the user's dismissal or by a later failure.
C27_NoticeStaysUntilDismissed ==
    /\ [][(C27_StorageFull => error' = FullMsg)
           /\ ((C27_StageFailed /\ ~C27_StorageFull) => error' = BusyMsg)]_vars
    /\ [][(error # NoError /\ error' # error)
           => (last'.op = "dismissError" \/ C27_StageFailed \/ C27_StorageFull)]_vars

\* the field of a collection that a stage fills
C28_Field(stage) ==
    CASE stage = "strategy" -> "strategy"
      [] stage = "visual" -> "visualConceptUrl"
      [] OTHER -> "promoAssets"

\* C28: the step that applies a stage result changes, in the list entry of
\* the collection the call was started for, only the field of that stage: the
\* images and the outputs of the other stages are those the entry had just
\* before the step, whatever was done to it while the call was in flight.
C28_ResultChangesOnlyItsField ==
    [][(last'.op = "settle" /\ last'.ok)
       => /\ Len(collections') = Len(collections)
          /\ \A i \in 1..Len(collections) :
                collections[i].id = Val(last'.cid)
                => \A field \in {C28_Field(last'.stage)} :
                      [collections'[i] EXCEPT ![field] = collections[i][field]]
                          = collections[i]]_vars

\* C29: whenever there is an active collection, the list has an entry of its
\* id, also after a stage result or an upload batch resolves for a collection
\* that was deleted while the call was in flight.
C29_ActiveIsInList ==
    (Ready /\ IsSome(activeCollection)) => ActiveId \in ListIds

\* C30: the step in which the call of a stage resolves, with a result or with
\* a failure, does not change which collection is active: the id of the
\* active collection is the one it was, and no collection is active if none
\* was.
C30_ResolutionKeepsActive ==
    [][last'.op = "settle"
       => IF IsSome(activeCollection)
          THEN IsSome(activeCollection') /\ Val(activeCollection').id = ActiveId
          ELSE activeCollection' = None]_vars

\* the collections of the state: those of the list and the active copy
C31_Collections ==
    {collections[i] : i \in 1..Len(collections)}
        \cup (IF IsSome(activeCollection) THEN {Val(activeCollection)} ELSE {})

\* C31: every collection, in the list and the active copy, that has a
\* visualConceptUrl or promoAssets has a strategy (the list loaded at startup
\* being such).
C31_OutputsNeedStrategy ==
    \A c \in C31_Collections :
        (IsSome(c.visualConceptUrl) \/ IsSome(c.promoAssets)) => IsSome(c.strategy)

\* an upload batch started before the visual concept was rendered has just
\* been committed from its closure, and the collection has a visual concept
\* in the list
C31_Witness ==
    /\ last.op = "uploadCommit"
    /\ IsSome(last.cid)
    /\ \E i \in 1..Len(collections) :
          /\ IsSome(collections[i].visualConceptUrl)
          /\ IsSome(collections[i].strategy)

C33_PersistedListIsNotOverwritten ==
    /\ [][(phase = "constructed" /\ storage.kind = "json") => storage' = storage]_vars
    /\ [][(phase = "loading" /\ Val(loaded).isArray)
           => storage' = Stringify(Val(loaded).list)]_vars

\* C34: the completion of an upload batch for a collection adds its images
\* to the image sequence the collection has at that moment: what another
\* batch added and what was removed while the batch was decoding stays as it
\* is, in the list entry and in the active copy.
C34_BatchKeepsConcurrentChanges ==
    [][(last'.op = "uploadCommit" /\ IsSome(last'.cid))
       => /\ Len(collections') = Len(collections)
          /\ \A i \in 1..Len(collections) :
                collections[i].id = Val(last'.cid)
                => collections'[i].images = collections[i].images \o last'.added
          /\ (IsSome(activeCollection) /\ ActiveId = Val(last'.cid))
                => Val(activeCollection').images
                       = Val(activeCollection).images \o last'.added]_vars

C35_ImageIds(images) == {images[k].id : k \in 1..Len(images)}

\* C35: no image id is both in the pending-image buffer and in the image
\* sequence of a collection (of the list, or the active copy), and no image
\* id is in the image sequences of two collections of different ids.
C35_ImagesHaveOneOwner ==
    /\ \A c \in C31_Collections :
          C35_ImageIds(pendingImages) \cap C35_ImageIds(c.images) = {}
    /\ \A c, d \in C31_Collections :
          c.id # d.id => C35_ImageIds(c.images) \cap C35_ImageIds(d.images) = {}

\* a collection was created with the image that was pending, beside the
\* older collection, one of whose two images has then been removed
C35_Witness ==
    /\ last.op = "removeImageFromCollection"
    /\ last.removed = 1
    /\ pendingImages = <<>>
    /\ Len(collections) = 2
    /\ Len(collections[1].images) = 1
    /\ collections[1].images[1].id > 0
    /\ Len(collections[2].images) = 1
    /\ collections[2].id = PersistedLook.id

\* the ids of the entries of the list a slot holds
C36_SlotIds(slot) ==
    IF slot.kind = "json" THEN {slot.list[i].id : i \in 1..Len(slot.list)} ELSE {}

\* the ids given out so far: those of the earlier session and those of this run
C36_IssuedIds == {id \in (0 - 2)..(MaxId + 2) : id < nextId}

\* C36: once the list has been loaded, an id that was given out and has no
\* entry in the collections list (its collection was deleted) gets no entry
\* in the list by any later step, and when it is not in the durable slot
\* either, no later step writes it into the slot.
C36_DeletedStaysDeleted ==
    [][\A id \in C36_IssuedIds :
          (phase = "ready" /\ id \notin ListIds) =>
              /\ id \notin ListIds'
              /\ id \notin C36_SlotIds(storage) => id \notin C36_SlotIds(storage')]_vars

\* a stage result or an upload batch started for a collection has completed
\* after the collection was deleted: the collection is active again, and it is
\* neither in the list nor in the slot
C36_Witness ==
    /\ last.op \in {"settle", "uploadCommit"}
    /\ last.ok
    /\ IsSome(last.cid)
    /\ Val(last.cid) \notin ListIds
    /\ Val(last.cid) \notin C36_SlotIds(storage)
    /\ IsSome(activeCollection)
    /\ ActiveId = Val(last.cid)

\* C37: every collection (of the list, or the active copy) that has both a
\* strategy and promoAssets has promoAssets.tagline = strategy.tagline.
C37_TaglineFollowsStrategy ==
    \A c \in C31_Collections :
        (IsSome(c.strategy) /\ IsSome(c.promoAssets)) =>
            Val(c.promoAssets).tagline = Val(c.strategy).tagline

\* C38: the canvas processImage makes for a decoded image of positive
\* integer width and height has a width and a height of at least 1.
C38_CanvasIsNotDegenerate ==
    (last.op = "processImage" /\ last.ok /\ last.file.width >= 1 /\ last.file.height >= 1) =>
        (last.size.width >= 1 /\ last.size.height >= 1)

====
